---- MODULE Spec2Model ----
(***************************************************************************)
(* Model of ConductorWs (janus_win/conductor_ws.cpp): the transaction map  *)
(* keyed by transaction id, the router OnMessageFromJanus, the request     *)
(* chain CreateSession -> CreateHandle -> JoinRoom -> SendOffer and the    *)
(* callbacks of the media engine and of the websocket client.              *)
(*                                                                         *)
(* An uncaught C++ exception (std::out_of_range from map::at or stoll,     *)
(* std::invalid_argument from stoll, std::bad_function_call from an empty  *)
(* std::function) terminates the process: the variable crashed records it  *)
(* and no action is enabled afterwards.                                    *)
(***************************************************************************)
EXTENDS Integers, Sequences, FiniteSets, TLC

VARIABLES
    m_transactionMap,        \* transaction id -> JanusTransaction, see Register
    m_SessionId,             \* long long, as [neg, mag] (sign and decimal digits)
    m_HandleId,              \* long long, as [neg, mag]
    peer_connection_,        \* TRUE iff peer_connection_ != nullptr
    peer_connection_factory_,\* TRUE iff peer_connection_factory_ != nullptr
    peer_id_,                \* int, -1 when there is no peer
    loopback_,               \* bool
    offers,                  \* CreateOffer calls whose observer callback is outstanding
    ui_queue,                \* callbacks posted by QueueUIThreadCallback, not yet run
    pending_messages_,       \* std::deque<std::string*>
    sending,                 \* client_->IsSendingMessage()
    sent,                    \* texts the last handler handed to client_->SendToJanus
    set_remote_calls,        \* descriptions handed to SetRemoteDescription, in order
    remote_description,      \* remote description the media engine accepted
    added_candidates,        \* candidates handed to AddIceCandidate, in order
    crashed,                 \* "none", or the uncaught failure that ended the process
    dcheck_is_on,            \* build flavour: RTC_DCHECK compiled in ("on") or
                             \* not ("off"); "unobserved" until a check fails
    made,                    \* history: number of JanusTransaction objects made
    lastCall,                \* history: the continuation call the last handler made
    hist,                    \* history: what has happened in the run (set of tags)
    routing,                 \* where the transport's context is in OnMessageFromJanus
    issuing                  \* where the media engine's context is in OnSuccess

vars == <<m_transactionMap, m_SessionId, m_HandleId, peer_connection_,
          peer_connection_factory_, peer_id_, loopback_, offers, ui_queue,
          pending_messages_, sending, sent, set_remote_calls,
          remote_description, added_candidates, crashed, dcheck_is_on, made, lastCall, hist,
          routing, issuing>>

----------------------------------------------------------------------------
(* Bounds of the exploration. *)
MaxTx == 4        \* JanusTransaction objects made in a run
MaxEvents == 2    \* events delivered to one transaction
MaxQueue == 2     \* length of the UI thread's queue and of pending_messages_

----------------------------------------------------------------------------
(* Input domains. *)

\* Values RandomString(12) may return.  Two values, so that a draw can also
\* repeat an id that is still in the map.
TxIds == {"abc123", "xyz789"}

\* Number tokens an inbound document may carry in data.id.
Tok1234567890123 == <<"1","2","3","4","5","6","7","8","9","0","1","2","3">>
TokMaxInt64 == <<"9","2","2","3","3","7","2","0","3","6","8","5","4","7","7","5","8","0","7">>
TokPastInt64 == <<"9","2","2","3","3","7","2","0","3","6","8","5","4","7","7","5","8","0","8">>
NoToken == <<>>
IdTokens == {Tok1234567890123, TokMaxInt64, TokPastInt64, NoToken}

PcOutcomes == {"ok", "factory_failed", "create_failed"}
UbOutcomes == {"crash", "continue"}
\* What a failing RTC_DCHECK finds the build to be
DcheckOutcomes == {"on", "off"}
Inputs == [id : TxIds, pc : PcOutcomes, ub : UbOutcomes, dc : DcheckOutcomes]
\* The inputs a handler reads, the others fixed
IdInputs == {in \in Inputs : in.pc = "ok" /\ in.ub = "crash" /\ in.dc = "on"}
PcInputs == {in \in Inputs : in.id = "abc123"}
UbInputs == {in \in Inputs : in.id = "abc123" /\ in.pc = "ok" /\ in.dc = "on"}
NoInputs == {in \in Inputs : in.id = "abc123" /\ in.pc = "ok" /\ in.ub = "crash"
                              /\ in.dc = "on"}

Descs == {"v=0 offer"}
Candidates == { [mid |-> "0", idx |-> 0, sdp |-> "candidate:1"],
                [mid |-> "1", idx |-> 1, sdp |-> ""] }

\* Inbound documents.  transaction = "none": the field is missing.
\* janus = "": the discriminator is missing.  janus = "<unparseable>": the
\* text is not JSON.
BlankMsg == [janus |-> "", transaction |-> "none", id |-> NoToken,
             result |-> "none", jsep |-> "none", code |-> "none",
             reason |-> "none", candidate |-> "none"]
TxnField == TxIds \cup {"none"}
SuccessMsgs == { [BlankMsg EXCEPT !.janus = "success", !.transaction = t, !.id = i]
                 : t \in TxnField, i \in IdTokens }
ErrorEnvelopes == { <<"458", "no such session">>, <<"403", "unauthorized">> }
ErrorMsgs == { [BlankMsg EXCEPT !.janus = "error", !.transaction = t,
                                !.code = e[1], !.reason = e[2]]
               : t \in TxnField, e \in ErrorEnvelopes }
EventMsgs == { [BlankMsg EXCEPT !.janus = "event", !.transaction = t,
                                !.result = r, !.jsep = j]
               : t \in TxnField, r \in {"ok", "failed"},
                 j \in {"none", "v=0 answer"} }
OtherMsgs == { [BlankMsg EXCEPT !.janus = j,
                                !.candidate = IF j = "trickle"
                                              THEN "candidate:1" ELSE "none"]
               : j \in {"ack", "trickle", "webrtcup", "hangup", "detached",
                        "media", "slowlink", "keepalive", "",
                        "<unparseable>"} }
Msgs == SuccessMsgs \cup ErrorMsgs \cup EventMsgs \cup OtherMsgs
\* janus = "<empty>": the text has no character at all, which the handler's
\* RTC_DCHECK(!message.empty()) rules out.
EmptyTextMsgs == { [BlankMsg EXCEPT !.janus = "<empty>"] }
AllMsgs == Msgs \cup EmptyTextMsgs

----------------------------------------------------------------------------
(* 64-bit integers and their text.  TLC's integers are 32 bits wide, so a  *)
(* long long is kept as its sign and its decimal digits.                   *)

Zero == [neg |-> FALSE, mag |-> <<0>>]

\* The value the two identifiers hold before the gateway assigned one.
InitialId == Zero

Digits == {"0","1","2","3","4","5","6","7","8","9"}
DigitVal(c) == CASE c = "0" -> 0 [] c = "1" -> 1 [] c = "2" -> 2 [] c = "3" -> 3
                 [] c = "4" -> 4 [] c = "5" -> 5 [] c = "6" -> 6 [] c = "7" -> 7
                 [] c = "8" -> 8 [] c = "9" -> 9
DigitChar(d) == CASE d = 0 -> "0" [] d = 1 -> "1" [] d = 2 -> "2" [] d = 3 -> "3"
                  [] d = 4 -> "4" [] d = 5 -> "5" [] d = 6 -> "6" [] d = 7 -> "7"
                  [] d = 8 -> "8" [] d = 9 -> "9"

Int64MaxMag == <<9,2,2,3,3,7,2,0,3,6,8,5,4,7,7,5,8,0,7>>
Int64MinMag == <<9,2,2,3,3,7,2,0,3,6,8,5,4,7,7,5,8,0,8>>

RECURSIVE StripZeros(_)
StripZeros(d) == IF Len(d) > 1 /\ d[1] = 0 THEN StripZeros(Tail(d)) ELSE d

RECURSIVE LexLeq(_, _)
LexLeq(a, b) == IF a = <<>> THEN TRUE
                ELSE IF a[1] < b[1] THEN TRUE
                ELSE IF a[1] > b[1] THEN FALSE
                ELSE LexLeq(Tail(a), Tail(b))

\* a <= b for magnitudes without leading zeros
MagLeq(a, b) == \/ Len(a) < Len(b)
                \/ Len(a) = Len(b) /\ LexLeq(a, b)

RECURSIVE DigitPrefix(_)
DigitPrefix(s) == IF s # <<>> /\ s[1] \in Digits
                  THEN <<DigitVal(s[1])>> \o DigitPrefix(Tail(s))
                  ELSE <<>>

\* Json::Value: the kinds of value the handlers meet.
JsonNull == [type |-> "null", neg |-> FALSE, mag |-> <<>>]

\* Json::Reader on a number token (a reader with 64-bit support): a value
\* that fits long long becomes an intValue, a larger one up to 2^64-1 a
\* uintValue.  Tokens whose magnitude exceeds 2^64-1 (they become doubles)
\* are outside IdTokens.  An absent member leaves the output value null.
JsonNumber(tok) ==
    IF tok = <<>> THEN JsonNull
    ELSE LET neg == tok[1] = "-"
             mag == StripZeros(DigitPrefix(IF neg THEN Tail(tok) ELSE tok))
         IN IF neg THEN [type |-> "int", neg |-> mag # <<0>>, mag |-> mag]
            ELSE IF MagLeq(mag, Int64MaxMag)
                 THEN [type |-> "int", neg |-> FALSE, mag |-> mag]
                 ELSE [type |-> "uint", neg |-> FALSE, mag |-> mag]

RECURSIVE DigitChars(_)
DigitChars(d) == IF d = <<>> THEN <<>>
                 ELSE <<DigitChar(d[1])>> \o DigitChars(Tail(d))

\* rtc::JsonValueToString: Json::FastWriter's text without the final newline.
JsonValueToString(v) ==
    IF v.type = "null" THEN <<"n","u","l","l">>
    ELSE (IF v.neg THEN <<"-">> ELSE <<>>) \o DigitChars(v.mag)

\* std::stoll with base 10: optional sign, the longest run of digits;
\* std::invalid_argument without a digit, std::out_of_range beyond long long.
StollAsStoi(str) ==
    LET signed == str # <<>> /\ str[1] \in {"-", "+"}
        neg == str # <<>> /\ str[1] = "-"
        d == DigitPrefix(IF signed THEN Tail(str) ELSE str)
        mag == StripZeros(d)
    IN IF d = <<>> THEN [err |-> "invalid_argument", val |-> Zero]
       ELSE IF ~ MagLeq(mag, <<2,1,4,7,4,8,3,6,4,7>>)
            THEN [err |-> "out_of_range", val |-> Zero]
            ELSE [err |-> "none", val |-> [neg |-> neg /\ mag # <<0>>, mag |-> mag]]

Stoll(str) ==
    LET signed == str # <<>> /\ str[1] \in {"-", "+"}
        neg == str # <<>> /\ str[1] = "-"
        d == DigitPrefix(IF signed THEN Tail(str) ELSE str)
        mag == StripZeros(d)
    IN IF d = <<>> THEN [err |-> "invalid_argument", val |-> Zero]
       ELSE IF ~ MagLeq(mag, IF neg THEN Int64MinMag ELSE Int64MaxMag)
            THEN [err |-> "out_of_range", val |-> Zero]
            ELSE [err |-> "none", val |-> [neg |-> neg /\ mag # <<0>>, mag |-> mag]]

----------------------------------------------------------------------------
(* The object's state as one record, so that a handler and the functions   *)
(* it calls are state transformers that compose.                           *)

Now == [m_transactionMap |-> m_transactionMap, m_SessionId |-> m_SessionId,
        m_HandleId |-> m_HandleId, peer_connection_ |-> peer_connection_,
        peer_connection_factory_ |-> peer_connection_factory_,
        peer_id_ |-> peer_id_, loopback_ |-> loopback_, offers |-> offers,
        ui_queue |-> ui_queue, pending_messages_ |-> pending_messages_,
        sending |-> sending, sent |-> sent,
        set_remote_calls |-> set_remote_calls,
        remote_description |-> remote_description,
        added_candidates |-> added_candidates, crashed |-> crashed,
        dcheck_is_on |-> dcheck_is_on, made |-> made,
        lastCall |-> lastCall, hist |-> hist]

\* fn: the member called, kind: the request that made the transaction,
\* code, reason: the arguments of Error, msg: the inbound message the router
\* was handling (the text argument of Success and Event).
NoCall == [fn |-> "none", kind |-> "none", code |-> "", reason |-> "",
           msg |-> BlankMsg]

\* The state a handler starts from: it has handed nothing to the client and
\* called no continuation yet.
Cur == [Now EXCEPT !.sent = <<>>, !.lastCall = NoCall]

WithinBounds(r) ==
    /\ r.made <= MaxTx
    /\ \A k \in DOMAIN r.m_transactionMap :
           r.m_transactionMap[k].calls.event <= MaxEvents
    /\ Len(r.ui_queue) <= MaxQueue
    /\ Len(r.pending_messages_) <= MaxQueue

\* The object's fields become those of r; a step is explored only while r
\* stays within bounds.
Assign(result) == \E r \in {result} :
    /\ WithinBounds(r)
    /\ m_transactionMap' = r.m_transactionMap
    /\ m_SessionId' = r.m_SessionId
    /\ m_HandleId' = r.m_HandleId
    /\ peer_connection_' = r.peer_connection_
    /\ peer_connection_factory_' = r.peer_connection_factory_
    /\ peer_id_' = r.peer_id_
    /\ loopback_' = r.loopback_
    /\ offers' = r.offers
    /\ ui_queue' = r.ui_queue
    /\ pending_messages_' = r.pending_messages_
    /\ sending' = r.sending
    /\ sent' = r.sent
    /\ set_remote_calls' = r.set_remote_calls
    /\ remote_description' = r.remote_description
    /\ added_candidates' = r.added_candidates
    /\ crashed' = r.crashed
    /\ dcheck_is_on' = r.dcheck_is_on
    /\ made' = r.made
    /\ lastCall' = r.lastCall
    /\ hist' = r.hist

\* The step of a handler that runs from its first statement to its last
\* without another context running in between.
Becomes(result) == Assign(result) /\ UNCHANGED <<routing, issuing>>

\* An uncaught exception or a failed check ends the process.
Crash(s, why) == IF s.crashed = "none" THEN [s EXCEPT !.crashed = why] ELSE s

Note(s, tag) == [s EXCEPT !.hist = @ \cup {tag}]

\* std::map<std::string, std::shared_ptr<JanusTransaction>>
MapPut(f, k, v) == [x \in (DOMAIN f) \cup {k} |-> IF x = k THEN v ELSE f[x]]
MapErase(f, k) == [x \in (DOMAIN f) \ {k} |-> f[x]]
EmptyMap == [x \in {} |-> 0]

\* Which std::function members each request sets on its JanusTransaction.
HasSuccess(kind) == kind \in {"create", "attach"}
HasError(kind) == kind \in {"create", "attach"}
HasEvent(kind) == kind \in {"attach", "join", "configure"}

NoCalls == [success |-> 0, error |-> 0, event |-> 0]

\* A new JanusTransaction.  kind stands for the closures the request stored
\* in it; calls counts the calls of its Success, Error and Event members and
\* abandoned tells that it was in the map when Close() ran (both history).
\* The map holds the only reference to the object, so an object that left
\* the map is never called again.
NewTransaction(kind) == [kind |-> kind, calls |-> NoCalls, abandoned |-> FALSE]

\* m_transactionMap[transactionID] = jt
Register(s, id, kind) ==
    [s EXCEPT !.m_transactionMap = MapPut(@, id, NewTransaction(kind)),
              !.made = @ + 1]

\* Json documents the object writes: field name -> value.
EmptyObj == [x \in {} |-> 0]
AbsentId == [neg |-> FALSE, mag |-> <<>>]
Request(janus, id) == [janus |-> janus, transaction |-> id,
                       session_id |-> AbsentId, handle_id |-> AbsentId,
                       plugin |-> "absent", body |-> EmptyObj,
                       jsep |-> EmptyObj, candidate |-> EmptyObj,
                       raw |-> EmptyObj]

\* client_->SendToJanus(text): the client is sending until OnMessageSent.
SendToJanus(s, req) == [s EXCEPT !.sent = Append(@, req), !.sending = TRUE]

\* main_wnd_->QueueUIThreadCallback(msg_id, data)
QueueUIThreadCallback(s, msg_id, data) ==
    [s EXCEPT !.ui_queue = Append(@, [msg_id |-> msg_id, data |-> data])]

NoData == [kind |-> "NULL", obj |-> EmptyObj]

SendMessage(s, obj) ==
    QueueUIThreadCallback(s, "SEND_MESSAGE_TO_PEER", [kind |-> "text", obj |-> obj])

DeletePeerConnection(s) ==
    [s EXCEPT !.peer_connection_ = FALSE, !.peer_connection_factory_ = FALSE,
              !.peer_id_ = -1, !.loopback_ = FALSE, !.offers = 0]

\* RTC_DCHECK(condition): a failing check aborts a build that compiles the
\* checks in and is no code at all in one that does not.  The build is one
\* and the same for the whole run; the first failing check observes it
\* (in.dc).
RTC_DCHECK(s, in, condition) ==
    IF condition THEN s
    ELSE LET s1 == [s EXCEPT !.dcheck_is_on =
                                 IF @ = "unobserved" THEN in.dc ELSE @]
         IN IF s1.dcheck_is_on = "on" THEN Crash(s1, "dcheck") ELSE s1

\* InitializePeerConnection; in.pc is what the factory and CreatePeerConnection
\* return.  When CreatePeerConnection fails the function goes on to AddTracks,
\* which calls through the null peer_connection_ (undefined behaviour).
InitializePeerConnection(s, in) ==
    LET s0 == RTC_DCHECK(s, in, ~s.peer_connection_factory_
                                   /\ ~s.peer_connection_)
    IN IF s0.crashed # "none" THEN s0
       ELSE IF in.pc = "factory_failed"
       THEN DeletePeerConnection(s0)
       ELSE IF in.pc = "create_failed"
       THEN IF in.ub = "crash"
            THEN Crash(DeletePeerConnection(s0), "null_deref")
            ELSE DeletePeerConnection(s0)
       ELSE [s0 EXCEPT !.peer_connection_factory_ = TRUE,
                       !.peer_connection_ = TRUE, !.offers = 0]

\* peer_connection_->CreateOffer(this, ...): the answer comes as a callback.
CreateOffer(s) == [s EXCEPT !.offers = @ + 1]

----------------------------------------------------------------------------
(* The requests. *)

\* CreateHandle: the "attach" request
CreateHandle(s, in) ==
    LET s1 == Register(s, in.id, "attach")
    IN SendToJanus(s1, [Request("attach", in.id) EXCEPT
                            !.plugin = "janus.plugin.echotest",
                            !.session_id = s1.m_SessionId])

\* JoinRoom: the join "message" request, then the peer connection and its offer
JoinRoom(s, in) ==
    LET s1 == Register(s, in.id, "join")
        s2 == SendToJanus(s1, [Request("message", in.id) EXCEPT
                                   !.body = [audio |-> TRUE, video |-> TRUE],
                                   !.session_id = s1.m_SessionId,
                                   !.handle_id = s1.m_HandleId])
        s3 == InitializePeerConnection(s2, in)
    IN IF s3.crashed = "none" /\ s3.peer_connection_ THEN CreateOffer(s3) ELSE s3

\* SendOffer: the configure "message" request carrying the local description
SendOffer(s, in, sdp_type, sdp_desc) ==
    LET s1 == Register(s, in.id, "configure")
    IN SendToJanus(s1, [Request("message", in.id) EXCEPT
                            !.body = [request |-> "configure", audio |-> TRUE,
                                      video |-> TRUE],
                            !.jsep = [type |-> sdp_type, sdp |-> sdp_desc],
                            !.session_id = s1.m_SessionId,
                            !.handle_id = s1.m_HandleId])

\* CreateSession: the "create" request
CreateSession(s, in) ==
    SendToJanus(Register(s, in.id, "create"), Request("create", in.id))

----------------------------------------------------------------------------
(* The continuations.  Each re-parses the text the router already parsed,  *)
(* so its own parse failure branch is never taken.                         *)

\* A call of member fn of the transaction under key
Called(s, key, fn, code, reason, m) ==
    LET jt == s.m_transactionMap[key]
        s1 == IF jt.abandoned THEN Note(s, "called_after_close") ELSE s
    IN [s1 EXCEPT !.m_transactionMap[key].calls[fn] = @ + 1,
                  !.lastCall = [fn |-> fn, kind |-> jt.kind, code |-> code,
                                reason |-> reason, msg |-> m]]

\* jt->Success of CreateSession
CreateSessionSuccess(s, m, in) ==
    LET sessionId_str == JsonValueToString(JsonNumber(m.id))
        r == Stoll(sessionId_str)
    IN IF r.err # "none" THEN Crash(s, r.err)
       ELSE CreateHandle(Note([s EXCEPT !.m_SessionId = r.val], "create_ok"), in)

\* jt->Success of CreateHandle
CreateHandleSuccess(s, m, in) ==
    LET handleId_str == JsonValueToString(JsonNumber(m.id))
        r == Stoll(handleId_str)
    IN IF r.err # "none" THEN Crash(s, r.err)
       ELSE JoinRoom(Note([s EXCEPT !.m_HandleId = r.val], "attach_ok"), in)

\* jt->Event of JoinRoom: a result other than "ok" is logged
JoinRoomEvent(s, m) == IF m.result = "ok" THEN Note(s, "join_ok") ELSE s

\* rtc::GetValueFromJsonObject(in, k, out): out is assigned only when in is an
\* object that has the member k.
GetValueFromJsonObject(in, k, member, out) ==
    IF in.type = "object" /\ member # "none"
    THEN [type |-> "object", neg |-> FALSE, mag |-> <<>>]
    ELSE out

\* janus_value != NULL: NULL converts to Json::Value(0), an intValue, and
\* values of different types are unequal.
JsonNotEqualNULL(v) == ~ (v.type = "int" /\ StripZeros(v.mag) = <<0>>)

\* webrtc::CreateSessionDescription(kAnswer, text): nullptr unless text is SDP
CreateSessionDescription(text) ==
    IF text # <<>> /\ text[1] = "v" THEN "answer" ELSE "nullptr"

\* jt->Event of SendOffer: the jsep member is looked up in the local, still
\* null janus_value and not in the parsed message.
SendOfferEvent(s, m, in) ==
    LET janus_value == GetValueFromJsonObject(JsonNull, "jsep", m.jsep, JsonNull)
        s1 == IF m.jsep # "none" THEN Note(s, "remote_jsep") ELSE s
    IN IF JsonNotEqualNULL(janus_value)
       THEN IF ~ s1.peer_connection_
            THEN (IF in.ub = "crash" THEN Crash(s1, "null_deref") ELSE s1)
            ELSE LET d == CreateSessionDescription(JsonValueToString(janus_value))
                 IN [s1 EXCEPT !.set_remote_calls = Append(@, d),
                               !.remote_description =
                                   IF d = "nullptr" THEN @ ELSE d]
       ELSE s1

----------------------------------------------------------------------------
(* The router. *)

\* The key used for the lookup: GetStringFromJsonObject leaves janus_str (the
\* discriminator) unchanged when the document has no "transaction" string.
TransactionKey(m) == IF m.transaction = "none" THEN m.janus ELSE m.transaction

\* The arguments the router passes to jt->Error
ErrorCodeArg(m) == "123"
ErrorReasonArg(m) == "456"

\* RouteSuccess without the erase after the call
RouteSuccessKeepsRecord(s, m, in) ==
    LET key == TransactionKey(m)
    IN IF key \notin DOMAIN s.m_transactionMap THEN Crash(s, "map_at_out_of_range")
       ELSE LET jt == s.m_transactionMap[key]
            IN IF ~ HasSuccess(jt.kind) THEN Crash(s, "bad_function_call")
               ELSE LET s1 == Called(s, key, "success", "", "", m)
                    IN IF jt.kind = "create"
                       THEN CreateSessionSuccess(s1, m, in)
                       ELSE CreateHandleSuccess(s1, m, in)

\* janus == "success": at(), Success, erase
RouteSuccess(s, m, in) ==
    LET key == TransactionKey(m)
    IN IF key \notin DOMAIN s.m_transactionMap THEN Crash(s, "map_at_out_of_range")
       ELSE LET jt == s.m_transactionMap[key]
            IN IF ~ HasSuccess(jt.kind) THEN Crash(s, "bad_function_call")
               ELSE LET s1 == Called(s, key, "success", "", "", m)
                        s2 == IF jt.kind = "create"
                              THEN CreateSessionSuccess(s1, m, in)
                              ELSE CreateHandleSuccess(s1, m, in)
                    IN IF s2.crashed # "none" THEN s2
                       ELSE [s2 EXCEPT !.m_transactionMap = MapErase(@, key)]

\* janus == "error": at(), Error, erase
RouteError(s, m, in) ==
    LET key == TransactionKey(m)
    IN IF key \notin DOMAIN s.m_transactionMap THEN Crash(s, "map_at_out_of_range")
       ELSE LET jt == s.m_transactionMap[key]
                s0 == Note(s, "error")
            IN IF ~ HasError(jt.kind) THEN Crash(s0, "bad_function_call")
               ELSE LET s1 == Called(s0, key, "error", ErrorCodeArg(m),
                                     ErrorReasonArg(m), m)
                    IN [s1 EXCEPT !.m_transactionMap = MapErase(@, key)]

\* RouteEvent that erases the transaction after the call, as the terminal
\* responses do
RouteEventErases(s, m, in) ==
    LET key == TransactionKey(m)
    IN IF key \notin DOMAIN s.m_transactionMap THEN Crash(s, "map_at_out_of_range")
       ELSE LET jt == s.m_transactionMap[key]
            IN IF ~ HasEvent(jt.kind) THEN Crash(s, "bad_function_call")
               ELSE LET s1 == Called(s, key, "event", "", "", m)
                        s2 == CASE jt.kind = "attach" -> s1
                                [] jt.kind = "join" -> JoinRoomEvent(s1, m)
                                [] jt.kind = "configure" -> SendOfferEvent(s1, m, in)
                    IN [s2 EXCEPT !.m_transactionMap = MapErase(@, key)]

\* janus == "event": at(), Event
RouteEvent(s, m, in) ==
    LET key == TransactionKey(m)
    IN IF key \notin DOMAIN s.m_transactionMap THEN Crash(s, "map_at_out_of_range")
       ELSE LET jt == s.m_transactionMap[key]
            IN IF ~ HasEvent(jt.kind) THEN Crash(s, "bad_function_call")
               ELSE LET s1 == Called(s, key, "event", "", "", m)
                    IN CASE jt.kind = "attach" -> s1
                         [] jt.kind = "join" -> JoinRoomEvent(s1, m)
                         [] jt.kind = "configure" -> SendOfferEvent(s1, m, in)

\* Route that takes "detached" as the end of the handle
RouteDetachedForgetsHandle(s, m, in) ==
    IF m.janus \in {"<unparseable>", "<empty>"} THEN s
    ELSE IF m.janus = "" THEN s
    ELSE IF m.janus = "success" THEN RouteSuccess(s, m, in)
    ELSE IF m.janus = "error" THEN RouteError(s, m, in)
    ELSE IF m.janus = "event" THEN RouteEvent(s, m, in)
    ELSE IF m.janus = "detached" THEN [s EXCEPT !.m_HandleId = Zero]
    ELSE s

\* The router after the check of the text: parse, discriminator, branch
Route(s, m, in) ==
    IF m.janus \in {"<unparseable>", "<empty>"} THEN s
    ELSE IF m.janus = "" THEN s
    ELSE IF m.janus = "success" THEN RouteSuccess(s, m, in)
    ELSE IF m.janus = "error" THEN RouteError(s, m, in)
    ELSE IF m.janus = "event" THEN RouteEvent(s, m, in)
    ELSE s

----------------------------------------------------------------------------
(* Operations. *)

Alive == crashed = "none"

\* The inputs the handling of m reads in the current state: a continuation
\* that std::stoll ends reads none, AddTracks runs on a null peer_connection_
\* only after CreatePeerConnection failed, and the build shows only when a
\* check fails for the first time.
InputsFor(m) ==
    LET key == TransactionKey(m)
        kind == IF key \in DOMAIN m_transactionMap
                THEN m_transactionMap[key].kind ELSE "none"
        converts == Stoll(JsonValueToString(JsonNumber(m.id))).err = "none"
        observes == /\ dcheck_is_on = "unobserved"
                    /\ (peer_connection_factory_ \/ peer_connection_)
    IN IF m.janus = "success" /\ kind = "create" /\ converts THEN IdInputs
       ELSE IF m.janus = "success" /\ kind = "attach" /\ converts
       THEN {in \in Inputs : /\ in.ub = "crash" \/ in.pc = "create_failed"
                             /\ in.dc = "on" \/ observes}
       ELSE IF m.janus = "event" /\ kind = "configure" THEN UbInputs
       ELSE IF m.janus = "<empty>" /\ dcheck_is_on = "unobserved"
       THEN {in \in Inputs : in.id = "abc123" /\ in.pc = "ok" /\ in.ub = "crash"}
       ELSE NoInputs

\* The body of OnMessageFromJanus on state s
MessageFromJanus(s, m, in) ==
    LET s0 == RTC_DCHECK(s, in, m.janus # "<empty>")
    IN IF s0.crashed # "none" THEN s0 ELSE Route(s0, m, in)

OnMessageFromJanus(m) ==
    /\ Alive
    /\ \E in \in InputsFor(m) : Becomes(MessageFromJanus(Cur, m, in))

\* The history starts anew with each session.
OnJanusConnected ==
    /\ Alive
    /\ \E in \in IdInputs : Becomes(CreateSession([Cur EXCEPT !.hist = {}], in))

\* CreateSessionDescriptionObserver::OnSuccess(desc)
OnSuccess(desc) ==
    /\ Alive
    /\ offers > 0
    /\ \E in \in IdInputs :
          LET s1 == Note([Cur EXCEPT !.offers = @ - 1], "local_desc")
              s2 == SendOffer(s1, in, "offer", desc)
          IN Becomes(SendMessage(s2, [type |-> "offer", sdp |-> desc]))

\* CreateSessionDescriptionObserver::OnFailure(error)
OnFailure ==
    /\ Alive
    /\ offers > 0
    /\ Becomes([Cur EXCEPT !.offers = @ - 1])

\* The Json object OnIceCandidate writes for a candidate
CandidateMessage(c) ==
    [sdpMid |-> c.mid, sdpMLineIndex |-> c.idx, candidate |-> c.sdp]

\* PeerConnectionObserver::OnIceCandidate; candidate->ToString fails on a
\* candidate without text.
OnIceCandidate(c) ==
    /\ Alive
    /\ peer_connection_
    /\ Becomes(IF loopback_ THEN [Cur EXCEPT !.added_candidates = Append(@, c)]
               ELSE IF c.sdp = "" THEN Cur
               ELSE SendMessage(Cur, CandidateMessage(c)))

\* The Json object trickleCandidate writes into "candidate"
TrickleCandidateObject(c) ==
    LET j1 == MapPut(EmptyObj, "sdpMid", c.mid)
        j2 == MapPut(j1, "sdpMLineIndex", c.idx)
    IN MapPut(j2, "sdpMid", c.sdp)

trickleCandidate(c) ==
    /\ Alive
    /\ \E in \in IdInputs :
          Becomes(IF c.sdp = "" THEN Cur
                  ELSE SendToJanus(Cur, [Request("message", in.id) EXCEPT
                                            !.candidate = TrickleCandidateObject(c),
                                            !.session_id = m_SessionId,
                                            !.handle_id = m_HandleId]))

\* UIThreadCallback that takes the text to send from the back of
\* pending_messages_
UIThreadCallbackFromBack ==
    /\ Alive
    /\ ui_queue # <<>>
    /\ LET cb == Head(ui_queue)
           s0 == [Cur EXCEPT !.ui_queue = Tail(@)]
       IN IF cb.msg_id = "PEER_CONNECTION_CLOSED"
          THEN Becomes(DeletePeerConnection(s0))
          ELSE LET s1 == IF cb.data.kind = "text"
                         THEN [s0 EXCEPT !.pending_messages_ = Append(@, cb.data.obj)]
                         ELSE s0
                   n == Len(s1.pending_messages_)
               IN IF s1.pending_messages_ # <<>> /\ ~ s1.sending
                  THEN Becomes(SendToJanus(
                          [s1 EXCEPT !.pending_messages_ = SubSeq(@, 1, n - 1)],
                          [Request("", "") EXCEPT
                              !.raw = s1.pending_messages_[n]]))
                  ELSE Becomes(s1)

\* UIThreadCallback for the callback at the head of the UI thread's queue
UIThreadCallback ==
    /\ Alive
    /\ ui_queue # <<>>
    /\ LET cb == Head(ui_queue)
           s0 == [Cur EXCEPT !.ui_queue = Tail(@)]
       IN IF cb.msg_id = "PEER_CONNECTION_CLOSED"
          THEN Becomes(DeletePeerConnection(s0))
          ELSE LET s1 == IF cb.data.kind = "text"
                         THEN [s0 EXCEPT !.pending_messages_ = Append(@, cb.data.obj)]
                         ELSE s0
               IN IF s1.pending_messages_ # <<>> /\ ~ s1.sending
                  THEN Becomes(SendToJanus(
                          [s1 EXCEPT !.pending_messages_ = Tail(@)],
                          [Request("", "") EXCEPT
                              !.raw = Head(s1.pending_messages_)]))
                  ELSE Becomes(s1)

\* The client finished sending a text.
OnMessageSent ==
    /\ Alive
    /\ sending
    /\ Becomes(QueueUIThreadCallback([Cur EXCEPT !.sending = FALSE],
                                     "SEND_MESSAGE_TO_PEER", NoData))

\* Close(): client_->SignOut() and DeletePeerConnection().  The transactions
\* in the map are marked as pending at close time (history).
CloseStep(s) ==
    LET s1 == Note(DeletePeerConnection(s), "closed")
    IN [s1 EXCEPT !.m_transactionMap =
            [k \in DOMAIN @ |-> [@[k] EXCEPT !.abandoned = TRUE]]]

Close ==
    /\ Alive
    /\ Becomes(CloseStep(Cur))

\* PeerConnectionClientObserver::OnDisconnected: the transport is gone
OnDisconnected ==
    /\ Alive
    /\ Becomes(Note(DeletePeerConnection(Cur), "disconnected"))

ConnectToPeer(peer_id) ==
    /\ Alive
    /\ \E in \in PcInputs :
          LET s0 == RTC_DCHECK(Cur, in, peer_id_ = -1)
          IN IF s0.crashed # "none" THEN Becomes(s0)
             ELSE IF peer_connection_ THEN Becomes(s0)
             ELSE LET s1 == InitializePeerConnection(s0, in)
                  IN IF s1.crashed = "none" /\ s1.peer_connection_
                     THEN Becomes(CreateOffer([s1 EXCEPT !.peer_id_ = peer_id]))
                     ELSE Becomes(s1)

----------------------------------------------------------------------------
(* The handlers statement by statement, for the two contexts that deliver  *)
(* callbacks: the transport's (OnJanusConnected, OnMessageFromJanus) and    *)
(* the media engine's (OnSuccess).  No statement of the class takes a lock, *)
(* so a context may be anywhere in its handler when the other one runs.     *)
(* Conflicting accesses to m_transactionMap that overlap are a data race:   *)
(* the outcome is undefined, here the process ends or goes on.              *)

IdleRoute == [at |-> "idle", m |-> BlankMsg]
IdleIssue == [at |-> "idle", id |-> "none", desc |-> "none"]

\* The responses of a gateway that answers the requests it got well-formedly
GatewayMsgs ==
    {m \in SuccessMsgs \cup EventMsgs :
        /\ m.transaction \in TxIds
        /\ m.janus = "success" => m.id = Tok1234567890123
        /\ m.janus = "event" => (m.result = "ok" /\ m.jsep = "v=0 answer")}

\* The other context is inside an access to the map that conflicts with the
\* one this context starts: the build decides what happens.
Overlap(other, ub) ==
    /\ crashed' = IF other.at = "in_map" /\ ub = "crash"
                  THEN "data_race" ELSE crashed
    /\ UNCHANGED <<m_transactionMap, m_SessionId, m_HandleId, peer_connection_,
                   peer_connection_factory_, peer_id_, loopback_, offers,
                   ui_queue, pending_messages_, sending, sent,
                   set_remote_calls, remote_description, added_candidates,
                   dcheck_is_on, made,
                   lastCall, hist>>

\* OnMessageFromJanus up to the call of m_transactionMap.at(janus_str)
RouteEnter(m) ==
    /\ Alive
    /\ routing.at = "idle"
    /\ m.janus \in {"success", "error", "event"}
    /\ routing' = [at |-> "in_map", m |-> m]
    /\ \E ub \in UbOutcomes : Overlap(issuing, ub)
    /\ UNCHANGED issuing

\* at() returns or throws; the continuation and the erase follow
RouteLeave ==
    /\ Alive
    /\ routing.at = "in_map"
    /\ \E in \in InputsFor(routing.m) : Assign(Route(Cur, routing.m, in))
    /\ routing' = IdleRoute
    /\ UNCHANGED issuing

\* OnJanusConnected, delivered by the transport between two messages
ConnectedBetweenMessages ==
    /\ routing.at = "idle"
    /\ OnJanusConnected

\* OnSuccess up to the assignment m_transactionMap[transactionID] = jt of
\* SendOffer
IssueEnter(desc) ==
    /\ Alive
    /\ issuing.at = "idle"
    /\ offers > 0
    /\ \E in \in IdInputs :
          issuing' = [at |-> "in_map", id |-> in.id, desc |-> desc]
    /\ \E ub \in UbOutcomes : Overlap(routing, ub)
    /\ UNCHANGED routing

\* the assignment completes; the request is sent and the text queued
IssueLeave ==
    /\ Alive
    /\ issuing.at = "in_map"
    /\ \E in \in {i \in IdInputs : i.id = issuing.id} :
          LET s1 == Note([Cur EXCEPT !.offers = IF @ > 0 THEN @ - 1 ELSE 0],
                         "local_desc")
              s2 == SendOffer(s1, in, "offer", issuing.desc)
          IN Assign(SendMessage(s2, [type |-> "offer", sdp |-> issuing.desc]))
    /\ issuing' = IdleIssue
    /\ UNCHANGED routing

----------------------------------------------------------------------------
Init ==
    /\ m_transactionMap = EmptyMap
    /\ m_SessionId = InitialId
    /\ m_HandleId = InitialId
    /\ peer_connection_ = FALSE
    /\ peer_connection_factory_ = FALSE
    /\ peer_id_ = -1
    /\ loopback_ = FALSE
    /\ offers = 0
    /\ ui_queue = <<>>
    /\ pending_messages_ = <<>>
    /\ sending = FALSE
    /\ sent = <<>>
    /\ set_remote_calls = <<>>
    /\ remote_description = "none"
    /\ added_candidates = <<>>
    /\ crashed = "none"
    /\ dcheck_is_on = "unobserved"
    /\ made = 0
    /\ lastCall = NoCall
    /\ hist = {}
    /\ routing = IdleRoute
    /\ issuing = IdleIssue

Next ==
    \/ \E m \in AllMsgs : OnMessageFromJanus(m)
    \/ OnJanusConnected
    \/ \E d \in Descs : OnSuccess(d)
    \/ OnFailure
    \/ \E c \in Candidates : OnIceCandidate(c)
    \/ \E c \in Candidates : trickleCandidate(c)
    \/ UIThreadCallback
    \/ OnMessageSent
    \/ Close
    \/ OnDisconnected
    \/ ConnectToPeer(0)

Spec == Init /\ [][Next]_vars


\* The signaling core: the gateway session, the router and the offer, for
\* the texts the handler's check admits.
NextCore ==
    \/ \E m \in Msgs : OnMessageFromJanus(m)
    \/ OnJanusConnected
    \/ \E d \in Descs : OnSuccess(d)
    \/ OnFailure
    \/ Close

SpecCore == Init /\ [][NextCore]_vars

\* The outbound candidates: both serializations and the UI thread's queue.
NextCandidates ==
    \/ \E c \in Candidates : OnIceCandidate(c)
    \/ \E c \in Candidates : trickleCandidate(c)
    \/ UIThreadCallback
    \/ OnMessageSent
    \/ ConnectToPeer(0)
    \/ OnDisconnected

SpecCandidates == Init /\ [][NextCandidates]_vars

\* What the media engine drives once the user connected to a peer: its
\* callbacks OnIceCandidate and OnSuccess and the UI thread's queue (nothing
\* calls trickleCandidate).
NextOutbound ==
    \/ \E c \in Candidates : OnIceCandidate(c)
    \/ \E d \in Descs : OnSuccess(d)
    \/ UIThreadCallback
    \/ OnMessageSent
    \/ ConnectToPeer(0)
    \/ OnDisconnected

SpecOutbound == Init /\ [][NextOutbound]_vars

\* The transport: the session, its loss and the queue of texts to send.
NextTransport ==
    \/ \E m \in Msgs : OnMessageFromJanus(m)
    \/ OnJanusConnected
    \/ \E d \in Descs : OnSuccess(d)
    \/ OnDisconnected
    \/ UIThreadCallback
    \/ OnMessageSent

SpecTransport == Init /\ [][NextTransport]_vars

\* The inbound side alone, whatever the text is.
NextInbound ==
    \/ \E m \in AllMsgs : OnMessageFromJanus(m)
    \/ OnJanusConnected
    \/ \E d \in Descs : OnSuccess(d)

SpecInbound == Init /\ [][NextInbound]_vars

\* The texts signaled with SendMessage that the client has not been handed
\* yet, oldest first: those in pending_messages_, then those whose callback
\* the UI thread has still to run.
IsText(cb) == cb.msg_id = "SEND_MESSAGE_TO_PEER" /\ cb.data.kind = "text"
Signaled(q) ==
    LET texts == SelectSeq(q, IsText)
    IN [i \in 1..Len(texts) |-> texts[i].data.obj]
Line == pending_messages_ \o Signaled(ui_queue)

\* Candidates that serialize to different texts
QueueCandidates ==
    Candidates \cup { [mid |-> "0", idx |-> 0, sdp |-> "candidate:2"] }

\* The queue of texts to send.  Texts are signaled while fewer than MaxQueue
\* wait, and the user connects to a peer while no peer is set (the condition
\* ConnectToPeer checks first).  The UI thread runs every callback posted to
\* it, and the client reports the end of every send.
NextQueue ==
    \/ peer_id_ = -1 /\ ConnectToPeer(0)
    \/ Len(Line) < MaxQueue /\ \E c \in QueueCandidates : OnIceCandidate(c)
    \/ Len(Line) < MaxQueue /\ \E d \in Descs : OnSuccess(d)
    \/ UIThreadCallback
    \/ OnMessageSent

FairQueue == WF_vars(UIThreadCallback) /\ WF_vars(OnMessageSent)

SpecQueue == Init /\ [][NextQueue]_vars /\ FairQueue

\* The two contexts, each at its own pace.
NextThreads ==
    \/ ConnectedBetweenMessages
    \/ \E m \in GatewayMsgs : RouteEnter(m)
    \/ RouteLeave
    \/ \E d \in Descs : IssueEnter(d)
    \/ IssueLeave

SpecThreads == Init /\ [][NextThreads]_vars

----------------------------------------------------------------------------
(* Pending(m, kinds): m carries the id of a registered transaction of one  *)
(* of the kinds.                                                           *)
Pending(m, kinds) ==
    /\ TransactionKey(m) \in DOMAIN m_transactionMap
    /\ m_transactionMap[TransactionKey(m)].kind \in kinds

Kinds == {"create", "attach", "join", "configure"}

\* C1: a success, error or event message whose transaction id is not in the
\* map (or is missing) does not end the process, calls no continuation and
\* leaves the map and the two identifiers unchanged.
C1_NotFoundIsIgnored ==
    [][\A m \in SuccessMsgs \cup ErrorMsgs \cup EventMsgs :
          (~ Pending(m, Kinds) /\ OnMessageFromJanus(m))
          => /\ crashed' = "none"
             /\ lastCall' = NoCall
             /\ m_transactionMap' = m_transactionMap
             /\ m_SessionId' = m_SessionId
             /\ m_HandleId' = m_HandleId]_vars

\* C2: for every transaction the success and the error continuation are
\* together called at most once, and the transaction that was called has left
\* the map (it is still there only if the call itself ended the process).
C2_TerminalAtMostOnce ==
    \A k \in DOMAIN m_transactionMap :
        LET c == m_transactionMap[k].calls
        IN /\ c.success + c.error <= 1
           /\ c.success + c.error = 1 => crashed # "none"

\* a terminal response was delivered, its continuation ran and the
\* transaction is gone
C2_Witness ==
    /\ lastCall.fn \in {"success", "error"}
    /\ crashed = "none"
    /\ \A k \in DOMAIN m_transactionMap : m_transactionMap[k].kind # lastCall.kind

\* C3: the session is Connected (the media engine accepted a remote
\* description) exactly if create, attach and join succeeded, a local
\* description was produced and an event for the configure transaction
\* carried a remote description.
Connected == remote_description # "none"
AllStepsSucceeded ==
    /\ {"create_ok", "attach_ok", "join_ok", "local_desc", "remote_jsep"} \subseteq hist
    /\ crashed = "none"
C3_ConnectedIffAllSteps == Connected <=> AllStepsSucceeded

\* C4: once the gateway answered a pending request with an error envelope,
\* the process is alive (the session is Failed) and no handler sends a
\* request any more.
C4_ErrorStopsRequests ==
    [][ /\ ("error" \notin hist /\ "error" \in hist') => crashed' = "none"
        /\ ("error" \in hist /\ "error" \in hist') => sent' = <<>> ]_vars

\* C5: after Close() no later message or media callback calls a continuation
\* of a transaction that was pending at the close, changes an identifier or
\* sends a request.
C5_CloseStopsContinuations ==
    [][ ("closed" \in hist /\ "closed" \in hist')
        => /\ "called_after_close" \notin hist'
           /\ m_SessionId' = m_SessionId
           /\ m_HandleId' = m_HandleId
           /\ sent' = <<>> ]_vars

\* C6: Close() twice gives the state Close() once gives, and after Close()
\* the map is empty, both identifiers are zero and there is no peer
\* connection.
C6_CloseIdempotentAndComplete ==
    LET c == CloseStep(Cur)
    IN /\ CloseStep(c) = c
       /\ c.m_transactionMap = EmptyMap
       /\ c.m_SessionId = Zero
       /\ c.m_HandleId = Zero
       /\ ~ c.peer_connection_

\* C7: an error envelope for a pending transaction calls its error
\* continuation with the code and the reason of the envelope and removes the
\* transaction.
C7_ErrorCarriesCodeAndReason ==
    [][\A m \in ErrorMsgs :
          (Pending(m, Kinds) /\ OnMessageFromJanus(m))
          => /\ lastCall'.fn = "error"
             /\ lastCall'.code = m.code
             /\ lastCall'.reason = m.reason
             /\ TransactionKey(m) \notin DOMAIN m_transactionMap']_vars

\* The numbers the tokens of IdTokens denote that fit a signed 64-bit integer
InInt64(tok) == tok \in {Tok1234567890123, TokMaxInt64}
Expected(tok) ==
    IF tok = Tok1234567890123
    THEN [neg |-> FALSE, mag |-> <<1,2,3,4,5,6,7,8,9,0,1,2,3>>]
    ELSE [neg |-> FALSE, mag |-> <<9,2,2,3,3,7,2,0,3,6,8,5,4,7,7,5,8,0,7>>]

\* C8: when the Success continuation of the create transaction has been
\* called with a message whose data.id is N, m_SessionId is N and the handler
\* sent the attach request with session_id = N; when the Success continuation
\* of the attach transaction has been called with data.id = H, m_HandleId is
\* H and the handler sent the join request with handle_id = H; and a
\* configure request carries the current m_HandleId and m_SessionId.
C8_IdsRoundTrip ==
    /\ (lastCall.fn = "success" /\ lastCall.kind = "create"
          /\ InInt64(lastCall.msg.id))
       => /\ m_SessionId = Expected(lastCall.msg.id)
          /\ Len(sent) = 1
          /\ sent[1].janus = "attach"
          /\ sent[1].session_id = Expected(lastCall.msg.id)
    /\ (lastCall.fn = "success" /\ lastCall.kind = "attach"
          /\ InInt64(lastCall.msg.id))
       => /\ m_HandleId = Expected(lastCall.msg.id)
          /\ Len(sent) = 1
          /\ sent[1].janus = "message"
          /\ sent[1].body = [audio |-> TRUE, video |-> TRUE]
          /\ sent[1].handle_id = Expected(lastCall.msg.id)
          /\ sent[1].session_id = m_SessionId
    /\ \A i \in 1..Len(sent) :
          "request" \in DOMAIN sent[i].body
          => /\ sent[i].handle_id = m_HandleId
             /\ sent[i].session_id = m_SessionId

\* the create success carried 1234567890123, the attach success the largest
\* 64-bit value, and the configure request went out with both
C8_Witness ==
    /\ m_SessionId = Expected(Tok1234567890123)
    /\ m_HandleId = Expected(TokMaxInt64)
    /\ Len(sent) = 1
    /\ "request" \in DOMAIN sent[1].body
    /\ sent[1].session_id = Expected(Tok1234567890123)
    /\ sent[1].handle_id = Expected(TokMaxInt64)

\* C9: the candidate object trickleCandidate puts into the outgoing message
\* has the three fields sdpMid, sdpMLineIndex and candidate, and they hold
\* the candidate's mid, m-line index and text.
C9_CandidateRoundTrip ==
    [][\A c \in Candidates :
          (c.sdp # "" /\ trickleCandidate(c))
          => /\ Len(sent') = 1
             /\ DOMAIN sent'[1].candidate = {"sdpMid", "sdpMLineIndex", "candidate"}
             /\ sent'[1].candidate["sdpMid"] = c.mid
             /\ sent'[1].candidate["sdpMLineIndex"] = c.idx
             /\ sent'[1].candidate["candidate"] = c.sdp ]_vars

\* C10: a handler that called the event continuation of a transaction
\* (an event message arrived for it) called it once and left the
\* transaction, and the key set of the whole map, in place.
C10_EventKeepsTransaction ==
    [][ lastCall'.fn = "event" =>
        LET k == TransactionKey(lastCall'.msg)
        IN /\ k \in DOMAIN m_transactionMap
           /\ DOMAIN m_transactionMap' = DOMAIN m_transactionMap
           /\ m_transactionMap'[k].kind = m_transactionMap[k].kind
           /\ m_transactionMap'[k].kind = lastCall'.kind
           /\ m_transactionMap'[k].calls.event
                = m_transactionMap[k].calls.event + 1
           /\ m_transactionMap'[k].calls.success = 0
           /\ m_transactionMap'[k].calls.error = 0 ]_vars

\* two events were delivered to a join transaction, which is still registered
C10_Witness ==
    /\ crashed = "none"
    /\ \E k \in DOMAIN m_transactionMap :
          /\ m_transactionMap[k].kind = "join"
          /\ m_transactionMap[k].calls.event = 2

\* C11: a handler that registers a transaction uses an id that is not in the
\* map (a draw of an id that is present ends in DuplicateId instead), and the
\* records that stay in the map are the ones that were there: a pending
\* transaction is never replaced.
C11_DuplicateIdRejected ==
    [][ made' > made =>
          /\ \A i \in 1..Len(sent') :
                 sent'[i].transaction \notin DOMAIN m_transactionMap
          /\ \A k \in DOMAIN m_transactionMap \cap DOMAIN m_transactionMap' :
                 /\ m_transactionMap'[k].kind = m_transactionMap[k].kind
                 /\ m_transactionMap'[k].abandoned = m_transactionMap[k].abandoned
      ]_vars

\* C12: from the disconnect notification until a new session is started from
\* outside, no handler calls a continuation (no pending transaction is
\* resolved) and no handler hands a text to the client (no further request).
C12_DisconnectTerminates ==
    [][ ("disconnected" \in hist /\ "disconnected" \in hist')
        => /\ lastCall'.fn = "none"
           /\ sent' = <<>> ]_vars

\* C13: accesses to the transaction map by the context that delivers the
\* inbound messages and by the context that issues the configure request
\* never overlap, and so no run ends in a data race.
C13_RegistryExclusion ==
    /\ ~ (routing.at = "in_map" /\ issuing.at = "in_map")
    /\ crashed # "data_race"

\* C14: a handler that called the event continuation of a configure
\* transaction handed the description of the event's jsep to
\* SetRemoteDescription, once, when the event carries a jsep, and did not
\* call SetRemoteDescription when it carries none.
C14_RemoteDescriptionApplied ==
    [][ (lastCall'.fn = "event" /\ lastCall'.kind = "configure")
        => IF lastCall'.msg.jsep # "none"
           THEN /\ set_remote_calls' = Append(set_remote_calls, "answer")
                /\ remote_description' = "answer"
           ELSE set_remote_calls' = set_remote_calls ]_vars

\* The members of the object in state s and what the handler sent, without
\* the history the model keeps beside them.
ObjectFields(s) ==
    [m_transactionMap |-> [k \in DOMAIN s.m_transactionMap |->
                              s.m_transactionMap[k].kind],
     m_SessionId |-> s.m_SessionId, m_HandleId |-> s.m_HandleId,
     peer_connection_ |-> s.peer_connection_,
     peer_connection_factory_ |-> s.peer_connection_factory_,
     peer_id_ |-> s.peer_id_, loopback_ |-> s.loopback_,
     pending_messages_ |-> s.pending_messages_, ui_queue |-> s.ui_queue,
     sending |-> s.sending, sent |-> s.sent,
     set_remote_calls |-> s.set_remote_calls, crashed |-> s.crashed]

\* C15: for a pending join transaction, the state the object is in after an
\* event whose result is not "ok" differs from the state it is in after the
\* same event with the result "ok".
C15_FailedJoinObservable ==
    \A m \in EventMsgs : \A in \in NoInputs :
        (Alive /\ Pending(m, {"join"}) /\ m.result = "failed")
        => ObjectFields(Route(Cur, m, in))
             # ObjectFields(Route(Cur, [m EXCEPT !.result = "ok"], in))

\* A text handed to the client that carries a candidate
CarriesCandidate(req) ==
    \/ "candidate" \in DOMAIN req.raw
    \/ req.candidate # EmptyObj

\* C16: OnIceCandidate, outside loopback, for a candidate that serializes,
\* registers no transaction and sends one request or queues one text for the
\* UI thread to send; and every text with a candidate that is handed to the
\* client is a "trickle" request with a transaction id and the session's
\* session_id and handle_id.
C16_CandidateSentAsTrickle ==
    [][ /\ \A c \in Candidates :
              (c.sdp # "" /\ ~ loopback_ /\ OnIceCandidate(c))
              => /\ m_transactionMap' = m_transactionMap
                 /\ Len(sent') + Len(ui_queue') = 1 + Len(ui_queue)
        /\ \A i \in 1..Len(sent') :
              CarriesCandidate(sent'[i])
              => /\ sent'[i].janus = "trickle"
                 /\ sent'[i].transaction \in TxIds
                 /\ sent'[i].session_id = m_SessionId
                 /\ sent'[i].handle_id = m_HandleId ]_vars

\* C17: the handler of an inbound "trickle" message hands its candidate to
\* AddIceCandidate or keeps it in one of the object's queues for later; it
\* does not return with the candidate lost.
C17_InboundCandidateKept ==
    [][\A m \in OtherMsgs :
          (m.janus = "trickle" /\ OnMessageFromJanus(m))
          => \/ /\ Len(added_candidates') = Len(added_candidates) + 1
                /\ added_candidates'[Len(added_candidates')].sdp = m.candidate
             \/ ui_queue' # ui_queue
             \/ pending_messages_' # pending_messages_ ]_vars

\* C18: a request handed to the client carries a handle_id only when the
\* attach of the session succeeded, and then the handle it assigned, and a
\* session_id only when the create of the session succeeded, and then the
\* session it assigned.
C18_IdsOnlyWhenAssigned ==
    \A i \in 1..Len(sent) :
        /\ sent[i].handle_id # AbsentId
           => ("attach_ok" \in hist /\ sent[i].handle_id = m_HandleId)
        /\ sent[i].session_id # AbsentId
           => ("create_ok" \in hist /\ sent[i].session_id = m_SessionId)

\* The transaction m is for has the continuation m's kind of response calls
HasContinuation(m) ==
    LET kind == m_transactionMap[TransactionKey(m)].kind
    IN CASE m.janus = "success" -> HasSuccess(kind)
         [] m.janus = "error" -> HasError(kind)
         [] m.janus = "event" -> HasEvent(kind)

\* C19: a success, error or event message for a pending transaction that
\* has no continuation for it is handled without ending the process and
\* without calling anything.
C19_AbsentContinuationSkipped ==
    [][\A m \in SuccessMsgs \cup ErrorMsgs \cup EventMsgs :
          (Pending(m, Kinds) /\ ~ HasContinuation(m) /\ OnMessageFromJanus(m))
          => /\ crashed' = "none"
             /\ lastCall' = NoCall ]_vars

\* The messages that are no response and no candidate
QuietMsgs ==
    {m \in OtherMsgs \cup EmptyTextMsgs :
        m.janus \in {"<unparseable>", "<empty>", "", "keepalive", "ack",
                     "webrtcup", "hangup", "detached", "media", "slowlink"}}

\* C20: the handling of a text that is unparseable, has no or an unknown
\* discriminator, or is an ack, webrtcup, hangup, detached, media or slowlink
\* message leaves the transaction map and the two identifiers as they were,
\* hands nothing to the client and calls no continuation.
C20_QuietMessagesChangeNothing ==
    Alive =>
    \A m \in QuietMsgs : \A in \in InputsFor(m) :
        LET r == MessageFromJanus(Cur, m, in)
        IN /\ r.m_transactionMap = m_transactionMap
           /\ r.m_SessionId = m_SessionId
           /\ r.m_HandleId = m_HandleId
           /\ r.sent = <<>>
           /\ r.lastCall = NoCall

\* such a text, the empty one of a build without checks among them, was
\* handled while a session with a handle had a transaction pending
C20_Witness ==
    /\ crashed = "none"
    /\ dcheck_is_on = "off"
    /\ m_transactionMap # EmptyMap
    /\ m_HandleId # InitialId
    /\ sent = <<>>
    /\ lastCall = NoCall

\* The requests of a step that UIThreadCallback took from pending_messages_
FromQueue(req) == req.raw # EmptyObj

\* A step hands the client the oldest waiting text, and no other, while the
\* client is not sending; any other step leaves the waiting texts as they
\* are or puts one more behind them and hands the client none of them.
FifoStep ==
    LET out == SelectSeq(sent', FromQueue)
    IN \/ /\ out = <<>>
          /\ Len(Line') \in {Len(Line), Len(Line) + 1}
          /\ SubSeq(Line', 1, Len(Line)) = Line
       \/ /\ Line # <<>>
          /\ ~ sending
          /\ Len(out) = 1
          /\ out[1].raw = Head(Line)
          /\ Line' = Tail(Line)

TakesOldest == Line # <<>> /\ Line' = Tail(Line)

\* C21: the texts handed to SendMessage go to the client in the order they
\* were signaled, each once: a waiting text leaves the queue only from its
\* front, only by being handed to the client and only while the client is
\* not sending; and as long as texts wait, the oldest one is handed over
\* again and again, so every text is sent.
C21_QueueIsFifo ==
    /\ [][FifoStep]_vars
    /\ ([]<>(Line # <<>>) => []<><<TakesOldest>>_vars)

\* a text was taken from the queue and handed to the client while a
\* different one still waits behind it
C21_Witness ==
    /\ crashed = "none"
    /\ Len(sent) = 1
    /\ FromQueue(sent[1])
    /\ pending_messages_ # <<>>
    /\ sent[1].raw # Head(pending_messages_)
    /\ sending

\* C22: at most one text is in flight at the client: whatever the step, a
\* text is handed to SendToJanus only while the client is not sending, and
\* not more than one in a step; the create, attach, join and configure
\* requests, which do not go through pending_messages_, are no exception.
C22_OneInFlight ==
    [][ sent' # <<>> => (~ sending /\ Len(sent') = 1) ]_vars
====
